---- MODULE Spec2Model ----
(***************************************************************************)
(* Model of src/features/firenzecard.py: the feature extractor             *)
(* (extract_features), the time-grid interpolator                          *)
(* (interpolate_on_timedelta), get_timedelta_range and                     *)
(* get_museum_entries_per_timedelta_and_plot.                              *)
(*                                                                         *)
(* Data frames are modelled by their rows.  pandas' merge is modelled as   *)
(* the relational join it computes (rows match when their key values are   *)
(* equal, whatever the dtypes of the key columns, as in the pandas of the  *)
(* file's date), groupby as the partition by key value, sort_values as     *)
(* some permutation ordered by the sort column (the order of ties is not   *)
(* fixed by the default quicksort, so it is a nondeterministic choice).    *)
(* Hours are double-precision floats, computed with the rounding of IEEE   *)
(* 754 (to nearest, ties to even).                                         *)
(* The def at line 142 has a parameter with `=` and no default value: it   *)
(* does not compile.  Python compiles the file as a whole, so the import   *)
(* of the file as it stands ends with SyntaxError and binds no function:   *)
(* that is Spec.  The other specifications (SpecFeatures, SpecRange, ...)  *)
(* each take the lines of one function on their own; the lines of          *)
(* interpolate_on_timedelta do not compile on their own either, and a call *)
(* of it ends with SyntaxError.  Line 198 is a statement of its own, a     *)
(* list literal asked for its sum: the first pass of the loop of line 186  *)
(* ends with AttributeError.                                               *)
(***************************************************************************)
EXTENDS Integers, Sequences, FiniteSets, Bags, TLC

VARIABLES
    import_error,   \* "" or the error the import of the file ended with
    ef_pc,          \* extract_features: "start" before the call, "done" after
    firenzedata,    \* extract_features: the visit log (df read at lines 94-97)
    locations,      \* extract_features: the location table (lines 99-102)
    features,       \* extract_features: the returned frame (line 139)
    timedelta,      \* the requested granularity
    start_date,     \* first day of the window
    end_date,       \* last day of the window
    it_input,       \* interpolate_on_timedelta: the aggregate first passed in
    it_df,          \* interpolate_on_timedelta: the frame passed in next / last returned
    it_error,       \* interpolate_on_timedelta: "" or the error the last call ended with
    it_calls,       \* interpolate_on_timedelta: calls made so far in the chain
    gtr_stack,      \* get_timedelta_range: the frames of the (recursive) call, innermost last
    gtr_result,     \* get_timedelta_range: what the outermost call returned
    me_pc,          \* get_museum_entries_per_timedelta_and_plot: "caller", "loop",
                    \*   "returned" or the error the call ended with
    me_df,          \* ...: the feature frame passed in
    me_df2,         \* ...: the local df2 of the loop body
    museum_list,    \* ...: the caller's list of requested names (one list object)
    me_names,       \* ...: the known names
    me_todo,        \* ...: what is left of the copy museum_list[:] the loop runs over
    me_reported,    \* ...: the names printed as wrong, in order
    museum_dfs,     \* ...: the dict of series, by name
    me_calls,       \* ...: calls made so far with this museum_list
    cm_pc,          \* get_correlation_matrix: "start" before the call, "returned" after
    cm_corr,        \* ...: the matrix df.corr(corr_method) of line 282
    cm_lst,         \* ...: the allow-list lst
    below_threshold,    \* ...: its argument below_threshold
    above_threshold,    \* ...: its argument above_threshold
    cm_result,      \* ...: the returned m, high_corr, inverse_corr
    ind_pc,         \* lines 134-135 of extract_features: "start", then "done"
    ind_df,         \* ...: the joined frame of line 132
    ind_out         \* ...: the frame with its indicator columns

moduleVars == <<import_error>>
featureVars == <<ef_pc, firenzedata, locations, features>>
argVars == <<timedelta, start_date, end_date>>
interpolateVars == <<it_input, it_df, it_error, it_calls>>
rangeVars == <<gtr_stack, gtr_result>>
entriesVars == <<me_pc, me_df, me_df2, museum_list, me_names, me_todo, me_reported,
                 museum_dfs, me_calls>>
correlationVars == <<cm_pc, cm_corr, cm_lst, below_threshold, above_threshold, cm_result>>
indicatorVars == <<ind_pc, ind_df, ind_out>>
vars == <<featureVars, argVars, interpolateVars, rangeVars, entriesVars,
          correlationVars, indicatorVars, moduleVars>>

----------------------------------------------------------------------------
(* Bounds of the model *)

MaxVisits == 3      \* rows of the visit log
MaxBucket == 2      \* an input aggregate observes buckets (and days) 0..MaxBucket
MaxCalls == 2       \* interpolate_on_timedelta is applied at most this often in a row
MaxDepth == 3       \* get_timedelta_range recurses at most to this depth
MaxNames == 2       \* names the caller requests
MaxEntryCalls == 2  \* calls of get_museum_entries_per_timedelta_and_plot on one list

(* Program constants *)

MinutesPerHour == 60    \* pd.Timedelta('1 hour'), in the model's time unit

----------------------------------------------------------------------------
(* Values *)

NULL == "null"                       \* a null user_id
Cards == {"A", "B"}
UserIds == Cards \cup {NULL}

\* (museum_id, museum_name) pairs a visit may carry
MuseumPairs == {<<1, "Uffizi">>, <<2, "Accademia">>}

\* Location tables: one row per museum (spec section 3, MuseumLocation)
LocationTables == {{<<1, "Uffizi">>, <<2, "Accademia">>}, {<<1, "Uffizi">>}}

\* entry timestamps, in minutes: equal ones and unequal gaps occur, and gaps
\* (6 and 12 minutes) whose hours do not add up exactly in double precision
Times == {0, 6, 18}

\* the buckets, and the days, an input aggregate observes and a window spans
ObservedBuckets == 0..MaxBucket

VisitRows == [user_id : UserIds, museum : MuseumPairs, entry_time : Times]

NaN == [nan |-> TRUE]                \* NaN / NaT of a float or timedelta column

\* a Timedelta: the difference of two timestamps
Timedelta(t2, t1) == [minutes |-> t2 - t1]

----------------------------------------------------------------------------
(* Double-precision floats, the values of lines 117-118 and 123-124 *)

\* Natural numbers of any size: the sequence of their digits in base Base,
\* least significant first, without leading zero digit; <<>> is 0.
LimbBits == 15
Base == 2 ^ LimbBits

RECURSIVE Trim(_)
Trim(a) ==
    IF a # <<>> /\ a[Len(a)] = 0 THEN Trim(SubSeq(a, 1, Len(a) - 1)) ELSE a

Limb(a, i) == IF i <= Len(a) THEN a[i] ELSE 0

RECURSIVE FromInt(_)
FromInt(n) == IF n = 0 THEN <<>> ELSE <<n % Base>> \o FromInt(n \div Base)

RECURSIVE AddFrom(_, _, _, _)
AddFrom(a, b, i, carry) ==
    IF i > Len(a) /\ i > Len(b)
    THEN IF carry = 0 THEN <<>> ELSE <<carry>>
    ELSE LET d == Limb(a, i) + Limb(b, i) + carry
         IN  <<d % Base>> \o AddFrom(a, b, i + 1, d \div Base)

BigAdd(a, b) == Trim(AddFrom(a, b, 1, 0))

\* a - b, for a >= b
RECURSIVE SubFrom(_, _, _, _)
SubFrom(a, b, i, borrow) ==
    IF i > Len(a) THEN <<>>
    ELSE LET d == Limb(a, i) - Limb(b, i) - borrow
         IN  <<(d + Base) % Base>> \o SubFrom(a, b, i + 1, IF d < 0 THEN 1 ELSE 0)

BigSub(a, b) == Trim(SubFrom(a, b, 1, 0))

RECURSIVE LessFrom(_, _, _)
LessFrom(a, b, i) ==
    IF i = 0 THEN FALSE
    ELSE IF a[i] # b[i] THEN a[i] < b[i]
    ELSE LessFrom(a, b, i - 1)

BigLess(a, b) == IF Len(a) # Len(b) THEN Len(a) < Len(b) ELSE LessFrom(a, b, Len(a))

IsOdd(a) == Limb(a, 1) % 2 = 1

Half(a) ==
    Trim([i \in 1..Len(a) |-> (a[i] + (Limb(a, i + 1) % 2) * Base) \div 2])

RECURSIVE ShiftLeft(_, _)
ShiftLeft(a, k) ==
    IF k = 0 \/ a = <<>> THEN a
    ELSE IF k >= LimbBits THEN <<0>> \o ShiftLeft(a, k - LimbBits)
    ELSE ShiftLeft(BigAdd(a, a), k - 1)

RECURSIVE IntBits(_)
IntBits(n) == IF n = 0 THEN 0 ELSE 1 + IntBits(n \div 2)

BitLength(a) == IF a = <<>> THEN 0 ELSE LimbBits * (Len(a) - 1) + IntBits(a[Len(a)])

\* A float64 is sign * mant * 2^exp with mant of exactly MantissaBits bits, or
\* zero.  The hours of a visit log are far from the largest and the smallest
\* float64, so infinities and subnormals are left out.
MantissaBits == 53
Zero == [sign |-> 1, exp |-> 0, mant |-> <<>>]

\* n halved k times, with the last bit shifted out (round) and whether a 1
\* was shifted out before it (sticky)
RECURSIVE RoundShift(_, _, _, _)
RoundShift(n, k, round, sticky) ==
    IF k = 0 THEN [n |-> n, round |-> round, sticky |-> sticky]
    ELSE RoundShift(Half(n), k - 1, IsOdd(n), sticky \/ round)

\* the float64 nearest to sign * n * 2^e, ties to the even mantissa (the
\* rounding of IEEE 754 arithmetic)
Round(sign, n, e) ==
    IF n = <<>> THEN Zero
    ELSE LET len == BitLength(n)
         IN  IF len <= MantissaBits
             THEN [sign |-> sign, exp |-> e - (MantissaBits - len),
                   mant |-> ShiftLeft(n, MantissaBits - len)]
             ELSE LET k == len - MantissaBits
                      sh == RoundShift(n, k, FALSE, FALSE)
                      up == sh.round /\ (sh.sticky \/ IsOdd(sh.n))
                      m == IF up THEN BigAdd(sh.n, <<1>>) ELSE sh.n
                  IN  IF BitLength(m) > MantissaBits
                      THEN [sign |-> sign, exp |-> e + k + 1, mant |-> Half(m)]
                      ELSE [sign |-> sign, exp |-> e + k, mant |-> m]

\* x + y of two floats
FloatAdd(x, y) ==
    IF x.mant = <<>> THEN y
    ELSE IF y.mant = <<>> THEN x
    ELSE LET e == IF x.exp < y.exp THEN x.exp ELSE y.exp
             a == ShiftLeft(x.mant, x.exp - e)
             b == ShiftLeft(y.mant, y.exp - e)
         IN  IF x.sign = y.sign THEN Round(x.sign, BigAdd(a, b), e)
             ELSE IF BigLess(a, b) THEN Round(y.sign, BigSub(b, a), e)
             ELSE Round(x.sign, BigSub(a, b), e)

\* the first k digits in base Base after the point of r / d, for r < d < Base,
\* put under the digits acc, and the remainder left
RECURSIVE QuotientLimbs(_, _, _, _)
QuotientLimbs(acc, r, d, k) ==
    IF k = 0 THEN [q |-> acc, r |-> r]
    ELSE QuotientLimbs(<<(r * Base) \div d>> \o acc, (r * Base) % d, d, k - 1)

\* n / d of two integers (0 < d < Base) that floats hold exactly: the
\* quotient, rounded once.  The digits kept reach below the last bit of the
\* mantissa, and a remainder is one more bit under them.
TrueDivide(n, d) ==
    LET a == IF n < 0 THEN 0 - n ELSE n
        k == (MantissaBits + 2 + IntBits(d)) \div LimbBits + 1
        qr == QuotientLimbs(FromInt(a \div d), a % d, d, k)
        q == Trim(qr.q)
        sticky == IF qr.r # 0 THEN <<1>> ELSE <<>>
    IN  Round(IF n < 0 THEN -1 ELSE 1, BigAdd(BigAdd(q, q), sticky),
              0 - (k * LimbBits + 1))

\* the hours of the timedeltas the visit logs can give, computed once
Minutes == {t2 - t1 : t2 \in Times, t1 \in Times}
Hours == [m \in Minutes |-> TrueDivide(m, MinutesPerHour)]

\* pd.Timedelta(x) / pd.Timedelta('1 hour'): the float number of hours, the
\* quotient of the two lengths (whole numbers of nanoseconds, in the ratio
\* minutes : 60); NaT gives NaN
InHours(x) == IF x = NaN THEN NaN ELSE Hours[x.minutes]

----------------------------------------------------------------------------

----------------------------------------------------------------------------
(* extract_features, lines 62-139 *)

\* line 104: pd.merge(df_locations, df, on=['museum_id','museum_name'], how='inner').
\* Each row keeps the position of its visit in the log as `visit`.
MergeLocations(locs, df) ==
    { [visit |-> i, user_id |-> df[i].user_id, museum_id |-> df[i].museum[1],
       museum_name |-> df[i].museum[2], entry_time |-> df[i].entry_time]
      : i \in {j \in DOMAIN df : df[j].museum \in locs} }

\* a frame left in the order it had: every order of the rows
RECURSIVE SortValuesDropped(_)
SortValuesDropped(rows) ==
    IF rows = {} THEN {<<>>}
    ELSE UNION { {<<r>> \o s : s \in SortValuesDropped(rows \ {r})} : r \in rows }

\* lines 112, 120: df.sort_values('entry_time', ascending=True): the orders of
\* the rows that are ascending in entry_time (any row of least entry_time
\* first, then the others in such an order)
RECURSIVE SortValues(_)
SortValues(rows) ==
    IF rows = {} THEN {<<>>}
    ELSE LET least == {r \in rows : \A q \in rows : r.entry_time <= q.entry_time}
         IN  UNION { {<<r>> \o s : s \in SortValues(rows \ {r})} : r \in least }

\* df['entry_time'].diff() without the groupby
GroupDiffUngrouped(s, i) ==
    IF i = 1 THEN NaN ELSE Timedelta(s[i].entry_time, s[i - 1].entry_time)

\* line 116: df.groupby('user_id')['entry_time'].diff(): for the row at
\* position i, entry_time minus that of the previous row of the same group;
\* NaT for the first row of a group and for a null user_id (groupby drops
\* null keys)
GroupDiff(s, i) ==
    LET prev == {j \in 1..(i - 1) : s[j].user_id = s[i].user_id}
        last == CHOOSE j \in prev : \A k \in prev : k <= j
    IN  IF s[i].user_id = NULL \/ prev = {} THEN NaN
        ELSE Timedelta(s[i].entry_time, s[last].entry_time)

\* last minus first of the whole frame, without the groupby
GroupSpanUngrouped(s, i) ==
    Timedelta(s[Len(s)].entry_time, s[1].entry_time)

\* lines 121-122: df[df.user_id.notnull()].groupby('user_id')['entry_time']
\*   .transform(lambda x: x.iat[-1] - x.iat[0]); rows with a null user_id are
\* not in the transformed series and get NaN on assignment
GroupSpan(s, i) ==
    LET grp == {j \in DOMAIN s : s[j].user_id = s[i].user_id}
        first == CHOOSE j \in grp : \A k \in grp : j <= k
        last == CHOOSE j \in grp : \A k \in grp : k <= j
    IN  IF s[i].user_id = NULL THEN NaN
        ELSE Timedelta(s[last].entry_time, s[first].entry_time)

\* lines 129-130: df.groupby('user_id')['museum_id'].value_counts(): one row
\* per (user_id, museum_id) with a non-null user_id, with its number of rows
EntrancesPerCardPerMuseum(rows) ==
    { [user_id |-> r.user_id, museum_id |-> r.museum_id,
       entrances_per_card_per_museum |->
           Cardinality({q \in rows : q.user_id = r.user_id /\ q.museum_id = r.museum_id})]
      : r \in {q \in rows : q.user_id # NULL} }

\* the position in the sorted frame s of the row with index label v
PositionOf(s, v) == CHOOSE i \in DOMAIN s : s[i].visit = v

\* the index labels of a frame
IndexOf(s) == {s[i].visit : i \in DOMAIN s}

\* lines 116-118: the series time_since_previous_museum computed on the
\* sorted frame s, in hours, by index label
TimeSincePreviousMuseum(s) ==
    [v \in IndexOf(s) |-> InHours(GroupDiff(s, PositionOf(s, v)))]

\* lines 121-124: the series total_duration_card_use computed on the sorted
\* frame s, in hours, by index label
TotalDurationCardUse(s) ==
    [v \in IndexOf(s) |-> InHours(GroupSpan(s, PositionOf(s, v)))]

\* df['column'] = series (lines 116-117, 121-123): each row gets the value
\* the series holds under the row's index label
WithColumns(rows, gaps, durations) ==
    { [visit |-> r.visit, user_id |-> r.user_id, museum_id |-> r.museum_id,
       museum_name |-> r.museum_name, entry_time |-> r.entry_time,
       time_since_previous_museum |-> gaps[r.visit],
       total_duration_card_use |-> durations[r.visit]] : r \in rows }

\* line 132: pd.merge(entrances_per_card_per_museum.reset_index(), df,
\*                    on=['user_id','museum_id'], how='inner')
MergeEntrances(counts, rows) ==
    { [visit |-> p[2].visit, user_id |-> p[2].user_id, museum_id |-> p[2].museum_id,
       museum_name |-> p[2].museum_name, entry_time |-> p[2].entry_time,
       time_since_previous_museum |-> p[2].time_since_previous_museum,
       total_duration_card_use |-> p[2].total_duration_card_use,
       entrances_per_card_per_museum |-> p[1].entrances_per_card_per_museum]
      : p \in {q \in counts \X rows :
                  q[1].user_id = q[2].user_id /\ q[1].museum_id = q[2].museum_id} }

\* df['museum_id'].nunique()
Nunique(df) == Cardinality({r.museum_id : r \in df})

\* range(1, n) with its end taken as included
RangeInclusive(n) == 1..n

\* line 134: range(1, df['museum_id'].nunique())
IndicatorRange(n) == 1..(n - 1)

\* line 135: np.where(df['museum_id'] == n, 1, 0), one column is_in_museum_n
\* for each n of the loop; the columns are kept as one field indexed by n
WithIndicators(df) ==
    {r @@ [is_in_museum |->
              [n \in IndicatorRange(Nunique(df)) |->
                  IF r.museum_id = n THEN 1 ELSE 0]] : r \in df}

\* lines 104-135: the frames the call can return from these two tables.  The
\* frame is sorted at line 112 and again at line 120; each sort leaves the
\* rows in some order ascending in entry_time, and the column computed after
\* it is assigned by index label.  A frame is kept as the set of its rows
\* (each has its own `visit`); the order of the rows is not modelled.
ExtractFeatures(locs, log) ==
    LET rows == MergeLocations(locs, log)
        gaps == {TimeSincePreviousMuseum(s1) : s1 \in SortValues(rows)}
        durations == {TotalDurationCardUse(s2) : s2 \in SortValues(rows)}
    IN  { LET df == WithColumns(rows, g, d)
          IN  WithIndicators(MergeEntrances(EntrancesPerCardPerMuseum(df), df))
          : g \in gaps, d \in durations }

extract_features ==
    /\ ef_pc = "start"
    /\ features' \in ExtractFeatures(locations, firenzedata)
    /\ ef_pc' = "done"
    /\ UNCHANGED <<firenzedata, locations, argVars, interpolateVars, rangeVars, entriesVars,
                   correlationVars, indicatorVars, moduleVars>>

\* the variables of an operation that is not running
IdleFeatures == ef_pc = "idle" /\ firenzedata = <<>> /\ locations = {} /\ features = {}
IdleArgs == timedelta = "" /\ start_date = 0 /\ end_date = 0
IdleInterpolate ==
    it_input = EmptyBag /\ it_df = EmptyBag /\ it_error = "" /\ it_calls = -1
IdleRange == gtr_stack = <<>> /\ gtr_result = [type |-> "none"]
IdleCorrelation ==
    /\ cm_pc = "idle" /\ cm_corr = <<>> /\ cm_lst = {} /\ below_threshold = 0
    /\ above_threshold = 0 /\ cm_result = <<>>
IdleIndicators == ind_pc = "idle" /\ ind_df = {} /\ ind_out = {}
IdleEntries ==
    /\ me_pc = "idle" /\ me_df = {} /\ me_df2 = <<>> /\ museum_list = <<>>
    /\ me_names = {}
    /\ me_todo = <<>> /\ me_reported = <<>> /\ museum_dfs = <<>> /\ me_calls = -1

InitFeatures ==
    /\ import_error = ""
    /\ ef_pc = "start"
    /\ firenzedata \in UNION {[1..n -> VisitRows] : n \in 0..MaxVisits}
    /\ locations \in LocationTables
    /\ features = {}
    /\ IdleArgs /\ IdleInterpolate /\ IdleRange /\ IdleEntries
    /\ IdleCorrelation /\ IdleIndicators

NextFeatures == extract_features

SpecFeatures == InitFeatures /\ [][NextFeatures]_vars

----------------------------------------------------------------------------
(* get_timedelta_range, lines 240-269, for a granularity of timedelta_options *)

\* line 246
timedelta_options == {"day_of_week", "hour", "date"}

DaysOfWeek == 7     \* line 257
HoursOfDay == 24    \* line 261

\* lines 256-267: the range returned for a granularity of timedelta_options;
\* for 'date', delta.days of end_date - start_date
TimedeltaRange(td, start, end) ==
    IF td = "day_of_week" THEN DaysOfWeek
    ELSE IF td = "hour" THEN HoursOfDay
    ELSE end - start

----------------------------------------------------------------------------
(* get_timedelta_range, lines 240-269, as it runs: the check of the           *)
(* granularity, the prompt, the recursive call and the return                 *)

(* Python values are records tagged with their type. *)
PyInt(n) == [type |-> "int", value |-> n]
PyStr(x) == [type |-> "str", value |-> x]
PyList == [type |-> "list"]                  \* []
PyDataFrame == [type |-> "DataFrame"]        \* pd.DataFrame()
PyTuple(a, b) == [type |-> "tuple", first |-> a, second |-> b]
NoResult == [type |-> "none"]

\* what a user can type at the prompt of line 253
TypedInputs == timedelta_options \cup {"week", "month"}

\* lines 246-249: the frame of a call, before line 251
Frame(td) ==
    [tdr_timedelta |-> td, timeunit |-> PyDataFrame, timedelta_range |-> PyDataFrame,
     pc |-> "line251"]

Top == gtr_stack[Len(gtr_stack)]
SetTop(f) == [gtr_stack EXCEPT ![Len(gtr_stack)] = f]

\* line 251: a granularity of timedelta_options skips to line 256; any other
\* prints "Wrong timedelta!" and calls input() at line 253
CheckTimedelta ==
    /\ gtr_stack # <<>>
    /\ Top.pc = "line251"
    /\ gtr_stack' = SetTop([Top EXCEPT !.pc =
                        IF Top.tdr_timedelta \in timedelta_options
                        THEN "line256" ELSE "line253"])
    /\ UNCHANGED <<gtr_result, argVars, featureVars, interpolateVars, entriesVars,
                   correlationVars, indicatorVars, moduleVars>>

\* lines 253-254: input() returns what the user typed; it replaces
\* tdr_timedelta and the function calls itself with it
InputTimedelta ==
    /\ gtr_stack # <<>>
    /\ Top.pc = "line253"
    /\ Len(gtr_stack) < MaxDepth
    /\ \E typed \in TypedInputs :
          gtr_stack' = Append(SetTop([Top EXCEPT !.tdr_timedelta = typed,
                                                 !.pc = "line254"]),
                              Frame(typed))
    /\ UNCHANGED <<gtr_result, argVars, featureVars, interpolateVars, entriesVars,
                   correlationVars, indicatorVars, moduleVars>>

\* lines 256-269: the three ifs and the return of (timedelta_range, timeunit)
ReturnValue(f) ==
    IF f.tdr_timedelta \in timedelta_options
    THEN PyTuple(PyInt(TimedeltaRange(f.tdr_timedelta, start_date, end_date)),
                 IF f.tdr_timedelta = "date" THEN PyStr("D") ELSE PyList)
    ELSE PyTuple(f.timedelta_range, f.timeunit)

\* line 269, and line 254 in the caller: the returned pair is unpacked as
\* `timeunit, timedelta_range = ...`, the range into timeunit and the unit into
\* timedelta_range; the caller goes on at line 256
ReturnTimedeltaRange ==
    /\ gtr_stack # <<>>
    /\ Top.pc = "line256"
    /\ LET ret == ReturnValue(Top)
           rest == SubSeq(gtr_stack, 1, Len(gtr_stack) - 1)
       IN  IF rest = <<>>
           THEN /\ gtr_stack' = <<>>
                /\ gtr_result' = ret
           ELSE /\ gtr_stack' = [rest EXCEPT ![Len(rest)] =
                                    [@ EXCEPT !.timeunit = ret.first,
                                              !.timedelta_range = ret.second,
                                              !.pc = "line256"]]
                /\ UNCHANGED gtr_result
    /\ UNCHANGED <<argVars, featureVars, interpolateVars, entriesVars,
                   correlationVars, indicatorVars, moduleVars>>

InitRange ==
    /\ import_error = ""
    /\ timedelta \in TypedInputs
    /\ start_date \in ObservedBuckets
    /\ end_date \in ObservedBuckets
    /\ start_date <= end_date
    /\ gtr_stack = <<Frame(timedelta)>>
    /\ gtr_result = NoResult
    /\ IdleFeatures /\ IdleInterpolate /\ IdleEntries
    /\ IdleCorrelation /\ IdleIndicators

NextRange == CheckTimedelta \/ InputTimedelta \/ ReturnTimedeltaRange

SpecRange == InitRange /\ [][NextRange]_vars

----------------------------------------------------------------------------
(* interpolate_on_timedelta, lines 142-170 *)

(* A frame is the bag of its rows [key, timedelta, count]: key is the column  *)
(* groupby_object (museum_id), timedelta the bucket column, count the column  *)
(* count_column.  Columns that are no merge key and no count are left out.    *)
\* Python's range(n)
Range(n) == 0..(n - 1)

\* pd.date_range(start_date, end_date, freq='D')
DateRange(start, end) == start..end

\* line 142: `timedelta_range=,` is a parameter with no default value after
\* its `=`, which the compiler refuses
SyntaxError == "SyntaxError"

\* A call of the function, and a call made again after it: the def of lines
\* 142-170 was never compiled, so no frame is returned and the caller keeps
\* the frame it passed.
Interpolate ==
    /\ it_calls \in 0..(MaxCalls - 1)
    /\ it_error' = SyntaxError
    /\ it_calls' = it_calls + 1
    /\ UNCHANGED <<it_input, it_df, argVars, featureVars, rangeVars, entriesVars,
                   correlationVars, indicatorVars, moduleVars>>

\* The input aggregates: the sums of a groupby on (key, bucket), so at most one
\* row per (key, bucket), with counts of at least 1
Keys == {1, 2}
Counts == {3, 5}
Aggregates ==
    { SetToBag({[key |-> c[1], timedelta |-> c[2], count |-> f[c]]
                : c \in {x \in DOMAIN f : f[x] # 0}})
      : f \in [Keys \X ObservedBuckets -> Counts \cup {0}] }

\* the full bucket domain of a granularity
BucketDomain(td, start, end) ==
    IF td = "day_of_week" THEN Range(DaysOfWeek)
    ELSE IF td = "hour" THEN Range(HoursOfDay)
    ELSE DateRange(start, end)

\* the keys observed in a frame
ObservedKeys(df) == {r.key : r \in BagToSet(df)}

\* the count a frame holds for cell (k, b): the sum over its rows for the cell
RECURSIVE SumCounts(_, _)
SumCounts(rows, df) ==
    IF rows = {} THEN 0
    ELSE LET r == CHOOSE q \in rows : TRUE
         IN  r.count * CopiesIn(r, df) + SumCounts(rows \ {r}, df)

CellRows(df, k, b) == {r \in BagToSet(df) : r.key = k /\ r.timedelta = b}
CellCount(df, k, b) == SumCounts(CellRows(df, k, b), df)

\* The fully populated grid of an aggregate: every cell of observed keys x bucket
\* domain once, with the aggregate's count or 0
FullGrid(df, td, start, end) ==
    SetToBag({ [key |-> k, timedelta |-> b, count |-> CellCount(df, k, b)]
               : k \in ObservedKeys(df), b \in BucketDomain(td, start, end) })

\* The chain starts from an aggregate or from a fully populated grid.
InitInterpolate ==
    /\ import_error = ""
    /\ timedelta \in timedelta_options
    /\ start_date \in ObservedBuckets
    /\ end_date \in ObservedBuckets
    /\ start_date <= end_date
    /\ (timedelta # "date" => start_date = 0 /\ end_date = MaxBucket)
    /\ \E agg \in Aggregates :
          it_input \in {agg, FullGrid(agg, timedelta, start_date, end_date)}
    /\ it_df = it_input
    /\ it_error = ""
    /\ it_calls = 0
    /\ IdleFeatures /\ IdleRange /\ IdleEntries
    /\ IdleCorrelation /\ IdleIndicators

NextInterpolate == Interpolate

SpecInterpolate == InitInterpolate /\ [][NextInterpolate]_vars

----------------------------------------------------------------------------
(* get_museum_entries_per_timedelta_and_plot, lines 173-237, with             *)
(* export_to_csv and plot off                                                 *)

(* Names are sequences of characters, so that str.contains is computed. *)
Uffizi == <<"U", "f", "f", "i", "z", "i">>
Pitti == <<"P", "i", "t", "t", "i">>
Uff == <<"U", "f", "f">>
Duomo == <<"D", "u", "o", "m", "o">>
AllMuseums == <<"A", "l", "l", " ", "M", "u", "s", "e", "u", "m", "s">>   \* line 184

\* line 193: Series.str.contains(museum_name), for a name of letters: the
\* name occurs in the short name
Contains(short_name, museum_name) ==
    \E i \in 0..(Len(short_name) - Len(museum_name)) :
        SubSeq(short_name, i + 1, i + Len(museum_name)) = museum_name

\* lines 192-195: the rows of df the name selects
SelectMuseum(df, museum_name) ==
    IF museum_name # AllMuseums
    THEN {r \in df : Contains(r.short_name, museum_name)}
    ELSE df

\* line 197: df2.groupby(['museum_id', 'short_name', timedelta],
\* as_index=False), the DataFrameGroupBy object of the frame and its keys;
\* no column is selected and nothing is summed
GroupBy(df2, td) == [grouped |-> df2, by |-> <<"museum_id", "short_name", td>>]

\* line 198: ['entrances_per_card_per_museum'].sum(), a statement of its
\* own: a list has no attribute sum
AttributeError == "AttributeError"

\* lines 179-186: the range of the granularity, the empty dicts, 'All
\* Museums' appended to the caller's list, and the copy the loop runs over
CallMuseumEntries ==
    /\ me_pc \in {"caller", "returned", AttributeError}
    /\ me_calls < MaxEntryCalls
    /\ museum_list' = Append(museum_list, AllMuseums)
    /\ me_todo' = museum_list'
    /\ museum_dfs' = <<>>
    /\ me_reported' = <<>>
    /\ me_df2' = <<>>
    /\ me_calls' = me_calls + 1
    /\ me_pc' = "loop"
    /\ UNCHANGED <<me_df, me_names, argVars, featureVars, interpolateVars, rangeVars,
                   correlationVars, indicatorVars, moduleVars>>

\* lines 186-198: the first pass of the loop body.  A name outside me_names
\* is printed with the known names (lines 188-190) and the body goes on; df2
\* is the rows the name selects, then their groupby object; line 198 raises
\* and the call ends there, with no series stored and nothing returned.
LoopMuseum ==
    /\ me_pc = "loop"
    /\ me_todo # <<>>
    /\ LET museum_name == Head(me_todo)
       IN  /\ me_reported' = IF museum_name \notin me_names
                             THEN Append(me_reported, museum_name)
                             ELSE me_reported
           /\ me_df2' = GroupBy(SelectMuseum(me_df, museum_name), timedelta)
    /\ me_pc' = AttributeError
    /\ UNCHANGED <<me_df, museum_list, me_names, me_todo, museum_dfs, me_calls,
                   argVars, featureVars, interpolateVars, rangeVars,
                   correlationVars, indicatorVars, moduleVars>>

\* rows of the feature frame: the columns the function reads
FeatureRows ==
    { [visit |-> 1, museum_id |-> 1, short_name |-> Uffizi, timedelta |-> 0,
       entrances_per_card_per_museum |-> 1],
      [visit |-> 2, museum_id |-> 1, short_name |-> Uffizi, timedelta |-> 0,
       entrances_per_card_per_museum |-> 2],
      [visit |-> 3, museum_id |-> 2, short_name |-> Pitti, timedelta |-> 1,
       entrances_per_card_per_museum |-> 1] }

RequestedNames == {Uffizi, Pitti, Uff, Duomo}

InitEntries ==
    /\ import_error = ""
    /\ me_pc = "caller"
    /\ me_df \in SUBSET FeatureRows
    /\ museum_list \in UNION {[1..n -> RequestedNames] : n \in 0..MaxNames}
    /\ me_names \in {{Uffizi, Pitti}, {Uffizi, Pitti, AllMuseums}}
    /\ me_df2 = <<>>
    /\ me_todo = <<>>
    /\ me_reported = <<>>
    /\ museum_dfs = <<>>
    /\ me_calls = 0
    /\ timedelta \in timedelta_options
    /\ start_date = 0
    /\ end_date = MaxBucket
    /\ IdleFeatures /\ IdleInterpolate /\ IdleRange
    /\ IdleCorrelation /\ IdleIndicators

NextEntries == CallMuseumEntries \/ LoopMuseum

SpecEntries == InitEntries /\ [][NextEntries]_vars

----------------------------------------------------------------------------
(* get_correlation_matrix, lines 272-311 *)

\* coefficients are the multiples of 1/MaxCoeff in [-1, 1]; n stands for
\* n/MaxCoeff, and so do the two thresholds
MaxCoeff == 2
Coefficients == (0 - MaxCoeff)..MaxCoeff
Coef(n) == [coef |-> n]

\* museum ids that are columns of the pivot of line 281
CorrMuseums == {1, 2, 3}
UnorderedPairs == {pq \in CorrMuseums \X CorrMuseums : pq[1] < pq[2]}

\* line 282, df.corr(corr_method): a symmetric matrix with 1 on the diagonal;
\* a column without variance (here the columns in flat) has NaN in its row
\* and its column, the diagonal included.  Each coefficient is computed over
\* the rows where both columns are present, so the coefficients of different
\* pairs do not constrain each other.
CorrOf(c, flat) ==
    [pq \in CorrMuseums \X CorrMuseums |->
        IF pq[1] \in flat \/ pq[2] \in flat THEN NaN
        ELSE IF pq[1] = pq[2] THEN Coef(MaxCoeff)
        ELSE IF pq[1] < pq[2] THEN Coef(c[pq])
        ELSE Coef(c[<<pq[2], pq[1]>>])]

\* line 282, .stack(): one entry per cell of the matrix, the NaN cells dropped
Stack(corr) ==
    {[level0 |-> pq[1], level1 |-> pq[2], value |-> corr[pq].coef] :
        pq \in {xy \in DOMAIN corr : corr[xy] # NaN}}

\* what line 283 would keep without its comparison of the two levels
KeepDiagonal(m) == m

\* line 283: m[m.index.get_level_values(0) != m.index.get_level_values(1)]
OffDiagonal(m) == {e \in m : e.level0 # e.level1}

\* line 285: corr_matrix[corr_matrix > above_threshold]
Above(corr_matrix, above) == {e \in corr_matrix : e.value > above}

\* line 286: corr_matrix[corr_matrix < below_threshold]
Below(corr_matrix, below) == {e \in corr_matrix : e.value < below}

\* line 292 and 302, np.isfinite: every number but NaN and the infinities
IsFinite(v) == v \in Int

\* lines 288-292 and 298-302: the frame of the two index levels and the
\* values (high.values, one column wide, read as that column), then the rows
\* whose value is finite
Combinations(series) ==
    {r \in {[combinations_1 |-> e.level0, combinations_2 |-> e.level1,
             values |-> e.value] : e \in series} : IsFinite(r.values)}

\* lines 293-296 and 303-306: the rows whose two ids are both in lst
InList(frame, lst) ==
    {r \in frame : r.combinations_1 \in lst /\ r.combinations_2 \in lst}

\* lines 282-311: return m, high_corr, inverse_corr
CorrelationMatrix(corr, lst, below, above) ==
    LET m == Stack(corr)
        corr_matrix == OffDiagonal(m)
    IN  [m |-> m,
         high_corr |-> InList(Combinations(Above(corr_matrix, above)), lst),
         inverse_corr |-> InList(Combinations(Below(corr_matrix, below)), lst)]

get_correlation_matrix ==
    /\ cm_pc = "start"
    /\ cm_result' = CorrelationMatrix(cm_corr, cm_lst, below_threshold, above_threshold)
    /\ cm_pc' = "returned"
    /\ UNCHANGED <<cm_corr, cm_lst, below_threshold, above_threshold, argVars,
                   featureVars, interpolateVars, rangeVars, entriesVars,
                   indicatorVars, moduleVars>>

\* the allow-lists and the sets of columns without variance of the calls
AllowLists == {{1, 2, 3}, {1, 2}, {2}}
FlatColumns == {{}, {3}}

InitCorrelation ==
    /\ import_error = ""
    /\ cm_pc = "start"
    /\ cm_corr \in {CorrOf(c, flat) :
                      c \in [UnorderedPairs -> Coefficients], flat \in FlatColumns}
    /\ cm_lst \in AllowLists
    /\ below_threshold \in Coefficients
    /\ above_threshold \in Coefficients
    /\ cm_result = <<>>
    /\ IdleFeatures /\ IdleArgs /\ IdleInterpolate /\ IdleRange /\ IdleEntries
    /\ IdleIndicators

NextCorrelation == get_correlation_matrix

SpecCorrelation == InitCorrelation /\ [][NextCorrelation]_vars

----------------------------------------------------------------------------
(* extract_features, lines 134-135: the indicator columns on frames with
   more museums than the visit logs above carry *)

MaxMuseumId == 4
MaxJoinedRows == 4
MuseumIds == 1..MaxMuseumId

AddIndicators ==
    /\ ind_pc = "start"
    /\ ind_out' = WithIndicators(ind_df)
    /\ ind_pc' = "done"
    /\ UNCHANGED <<ind_df, argVars, featureVars, interpolateVars, rangeVars,
                   entriesVars, correlationVars, moduleVars>>

\* the joined frames of line 132, reduced to the column the loop reads
JoinedFrames ==
    UNION {{{[visit |-> i, museum_id |-> f[i]] : i \in 1..k} :
              f \in [1..k -> MuseumIds]} : k \in 0..MaxJoinedRows}

InitIndicators ==
    /\ import_error = ""
    /\ ind_pc = "start"
    /\ ind_df \in JoinedFrames
    /\ ind_out = {}
    /\ IdleFeatures /\ IdleArgs /\ IdleInterpolate /\ IdleRange /\ IdleEntries
    /\ IdleCorrelation

NextIndicators == AddIndicators

SpecIndicators == InitIndicators /\ [][NextIndicators]_vars

----------------------------------------------------------------------------
(* The file as it stands: a caller holding the inputs of any one of the
   operations imports it *)

Init ==
    \/ InitFeatures \/ InitInterpolate \/ InitRange \/ InitEntries
    \/ InitCorrelation \/ InitIndicators

\* import firenzecard, or from firenzecard import <name>: the file is compiled
\* whole, the def of line 142 stops the compiler, and no function is bound, so
\* no operation runs
Import ==
    /\ import_error = ""
    /\ import_error' = SyntaxError
    /\ UNCHANGED <<featureVars, argVars, interpolateVars, rangeVars, entriesVars,
                   correlationVars, indicatorVars>>

Next == Import

Spec == Init /\ [][Next]_vars

----------------------------------------------------------------------------
(* Properties of interpolate_on_timedelta *)

\* the bucket domain of the call's granularity and window
Domain == BucketDomain(timedelta, start_date, end_date)

\* the number of rows of a frame for cell (k, b)
CellCopies(df, k, b) ==
    BagCardinality([r \in CellRows(df, k, b) |-> CopiesIn(r, df)])

\* C1: the call returns a frame, which holds each pair (k, b) of an observed
\* key and a bucket of the full domain exactly once, and no row under a key
\* the input does not have.
C1_EveryCellExactlyOnce ==
    it_calls = 1 =>
        /\ it_error = ""
        /\ \A k \in ObservedKeys(it_input) : \A b \in Domain :
              CellCopies(it_df, k, b) = 1
        /\ ObservedKeys(it_df) \subseteq ObservedKeys(it_input)

\* C2: the call returns a frame, which has 24, 7 or (end_date - start_date
\* + 1) rows for each distinct key of the input.
C2_RowCount ==
    it_calls = 1 =>
        /\ it_error = ""
        /\ BagCardinality(it_df) =
              (IF timedelta = "hour" THEN 24
               ELSE IF timedelta = "day_of_week" THEN 7
               ELSE end_date - start_date + 1) * Cardinality(ObservedKeys(it_input))

\* C3: the call returns a frame; in it every cell (k, b) of an observed key and a bucket
\* of the domain is present, with the input's count if the input has the
\* cell and 0 if not; so museum 1 with count 3 at day_of_week 0 and 5 at
\* day_of_week 2 gives [3,0,5,0,0,0,0] at buckets 0..6.
C3_CountsKeptOrZero ==
    it_calls = 1 =>
        /\ it_error = ""
        /\ \A k \in ObservedKeys(it_input) : \A b \in Domain :
              /\ CellRows(it_df, k, b) # {}
              /\ CellCount(it_df, k, b) = CellCount(it_input, k, b)

\* C4: a call on a frame that holds every cell of the full grid (of at least
\* one key) returns the same rows with the same counts, and so does a second
\* call on what the first returned.
C4_FullGridUnchanged ==
    (/\ it_calls >= 1
     /\ it_input # EmptyBag
     /\ it_input = FullGrid(it_input, timedelta, start_date, end_date))
        => it_error = "" /\ it_df = it_input

----------------------------------------------------------------------------
(* Properties of get_timedelta_range *)

\* the error the call of a granularity outside timedelta_options should end with
InvalidGranularity(requested) ==
    [type |-> "InvalidGranularity", requested |-> requested, allowed |-> timedelta_options]

\* C9: with a granularity outside timedelta_options the call never waits for
\* input() and what it ends with is InvalidGranularity(requested).
C9_FailsFastOnInvalidGranularity ==
    timedelta \notin timedelta_options =>
        /\ \A i \in DOMAIN gtr_stack : gtr_stack[i].pc # "line253"
        /\ gtr_result \in {NoResult, InvalidGranularity(timedelta)}

----------------------------------------------------------------------------
(* Properties of get_museum_entries_per_timedelta_and_plot *)

\* the names requested in the first call: the caller's list before line 184
\* appended to it
Requested == {museum_list[i] : i \in 1..(Len(museum_list) - me_calls)}

\* C10: the call does not fail: once its loop is over it has returned, no
\* series is held under a requested name that is not in me_names, and every
\* requested name that is in me_names, and 'All Museums', has its series.
C10_UnknownNamesSkipped ==
    (me_calls = 1 /\ me_pc # "loop") =>
        /\ me_pc = "returned"
        /\ \A n \in Requested : n \notin me_names => n \notin DOMAIN museum_dfs
        /\ \A n \in Requested : n \in me_names => n \in DOMAIN museum_dfs
        /\ AllMuseums \in DOMAIN museum_dfs

\* the number of times 'All Museums' is in a list of names
TimesAllMuseums(names) ==
    Cardinality({i \in DOMAIN names : names[i] = AllMuseums})

\* C13: no step of a call changes the caller's museum_list, and every call,
\* the first and the later ones made with the same list, runs its loop over
\* the requested names with 'All Museums' once.
C13_CallerListUnchanged ==
    [][/\ museum_list' = museum_list
       /\ (me_pc # "loop" /\ me_pc' = "loop") => TimesAllMuseums(me_todo') = 1]_vars

----------------------------------------------------------------------------
(* Properties of extract_features *)

\* the rows of the returned frame that belong to card c
RowsOfCard(c) == {r \in features : r.user_id = c}

\* the visits of the log whose (museum_id, museum_name) is in the location table
LocatedVisits == {i \in DOMAIN firenzedata : firenzedata[i].museum \in locations}

\* the sum of the defined values of time_since_previous_museum over the rows
\* of a sequence, added in its order in double precision, starting from 0.0
\* (NaN counts as nothing)
RECURSIVE SumOfGaps(_)
SumOfGaps(s) ==
    IF s = <<>> THEN Zero
    ELSE LET rest == SumOfGaps(SubSeq(s, 1, Len(s) - 1))
             gap == s[Len(s)].time_since_previous_museum
         IN  IF gap = NaN THEN rest ELSE FloatAdd(rest, gap)

\* the place of a float among the floats of its sign, counted from zero
Ordinal(x) ==
    IF x.mant = <<>> THEN <<>>
    ELSE BigAdd(x.mant, ShiftLeft(FromInt(x.exp + 1074), MantissaBits - 1))

\* the number of floats from x to y: their distance in units in the last place
UlpDistance(x, y) ==
    IF x.sign # y.sign THEN BigAdd(Ordinal(x), Ordinal(y))
    ELSE IF BigLess(Ordinal(x), Ordinal(y)) THEN BigSub(Ordinal(y), Ordinal(x))
    ELSE BigSub(Ordinal(x), Ordinal(y))

WithinUlps(x, y, n) == x = y \/ BigLess(UlpDistance(x, y), FromInt(n + 1))

\* C5, as stated: for every card with a non-null identifier, the defined
\* values of time_since_previous_museum of its rows, added in entry-time
\* order, are equal to the card's total_duration_card_use.
C5_GapsSumToDuration ==
    ef_pc = "done" =>
        \A c \in Cards : \A r \in RowsOfCard(c) :
            \A s \in SortValues(RowsOfCard(c)) :
                SumOfGaps(s) = r.total_duration_card_use

\* C5, amended: the sum of the defined gaps of a card, added in entry-time
\* order, is the card's total_duration_card_use up to the rounding of double
\* precision: the two are at most one unit in the last place apart for each
\* visit of the card, and equal for a card of one or two visits.
C5_GapsSumToDurationRounded ==
    ef_pc = "done" =>
        \A c \in Cards : \A r \in RowsOfCard(c) :
            \A s \in SortValues(RowsOfCard(c)) :
                /\ WithinUlps(SumOfGaps(s), r.total_duration_card_use, Len(s))
                /\ Len(s) <= 2 => SumOfGaps(s) = r.total_duration_card_use

\* the case of C5: a card with three visits logged out of time order, whose
\* gaps add up to a float next to its duration
C5_Witness ==
    /\ ef_pc = "done"
    /\ \E c \in Cards :
         /\ Cardinality(RowsOfCard(c)) = 3
         /\ \E r, q \in RowsOfCard(c) : r.visit < q.visit /\ r.entry_time > q.entry_time
         /\ \E r \in RowsOfCard(c) : \E s \in SortValues(RowsOfCard(c)) :
               /\ SumOfGaps(s) # r.total_duration_card_use
               /\ WithinUlps(SumOfGaps(s), r.total_duration_card_use, 1)

\* C6: within each card, time_since_previous_museum is the time in hours
\* since the immediately preceding visit of the same card in some ascending
\* entry-time order of the card's visits, and is NaN for the first of them.
C6_GapToPreviousVisitOfSameCard ==
    ef_pc = "done" =>
        \A c \in Cards :
            \E s \in SortValues(RowsOfCard(c)) :
                \A i \in DOMAIN s :
                    s[i].time_since_previous_museum =
                        IF i = 1 THEN NaN
                        ELSE InHours(Timedelta(s[i].entry_time, s[i - 1].entry_time))

\* the case of C6: a visit of another card lies strictly between two
\* consecutive visits of a card
C6_Witness ==
    /\ ef_pc = "done"
    /\ \E r, q \in features : \E o \in features :
         /\ r.user_id \in Cards /\ q.user_id = r.user_id /\ o.user_id \in Cards \ {r.user_id}
         /\ r.entry_time < o.entry_time /\ o.entry_time < q.entry_time
         /\ Cardinality(RowsOfCard(r.user_id)) = 2
         /\ q.time_since_previous_museum # NaN
         /\ r.time_since_previous_museum = NaN

\* C7: every row of a card carries the time in hours from the card's earliest
\* to its latest entry; it is never negative, and 0 for a card with one visit.
C7_DurationIsLastMinusFirst ==
    ef_pc = "done" =>
        \A c \in Cards : \A r \in RowsOfCard(c) :
            /\ \E lo, hi \in RowsOfCard(c) :
                 /\ \A q \in RowsOfCard(c) :
                        lo.entry_time <= q.entry_time /\ q.entry_time <= hi.entry_time
                 /\ r.total_duration_card_use =
                        InHours(Timedelta(hi.entry_time, lo.entry_time))
            /\ r.total_duration_card_use.sign = 1
            /\ (Cardinality(RowsOfCard(c)) = 1 => r.total_duration_card_use = Zero)

\* the case of C7: one card with a single visit and another with visits at
\* different times, the later one logged first
C7_Witness ==
    /\ ef_pc = "done"
    /\ \E c, d \in Cards :
         /\ Cardinality(RowsOfCard(c)) = 1
         /\ \E r, q \in RowsOfCard(d) :
               /\ r.visit < q.visit /\ r.entry_time > q.entry_time
               /\ r.total_duration_card_use.sign = 1
               /\ r.total_duration_card_use # Zero

\* C8: the returned frame has exactly one row for each visit whose
\* (museum_id, museum_name) is in the location table, a null user_id included,
\* and no other row.
C8_OneRowPerLocatedVisit ==
    ef_pc = "done" =>
        /\ {r.visit : r \in features} = LocatedVisits
        /\ Cardinality(features) = Cardinality(LocatedVisits)

----------------------------------------------------------------------------
(* Properties of get_correlation_matrix *)

\* the pairs of museum ids of a returned frame
PairsOf(frame) == {<<r.combinations_1, r.combinations_2>> : r \in frame}

\* the finite off-diagonal cells of the correlation matrix between two
\* museums of the allow-list
AllowedPairs ==
    {pq \in DOMAIN cm_corr :
        /\ pq[1] # pq[2]
        /\ cm_corr[pq] # NaN
        /\ pq[1] \in cm_lst /\ pq[2] \in cm_lst}

\* the number of the sets high, inverse a pair is in
Memberships(pq) ==
    (IF pq \in PairsOf(cm_result.high_corr) THEN 1 ELSE 0)
    + (IF pq \in PairsOf(cm_result.inverse_corr) THEN 1 ELSE 0)

\* no pair (x, x) is in the high or the inverse set
NoDiagonalPair ==
    \A pq \in PairsOf(cm_result.high_corr) \cup PairsOf(cm_result.inverse_corr) :
        pq[1] # pq[2]

\* high holds the allowed pairs above above_threshold, inverse those below
\* below_threshold, each with its coefficient
HighAndInverseByThreshold ==
    /\ cm_result.high_corr =
          {[combinations_1 |-> pq[1], combinations_2 |-> pq[2],
            values |-> cm_corr[pq].coef] :
              pq \in {xy \in AllowedPairs : cm_corr[xy].coef > above_threshold}}
    /\ cm_result.inverse_corr =
          {[combinations_1 |-> pq[1], combinations_2 |-> pq[2],
            values |-> cm_corr[pq].coef] :
              pq \in {xy \in AllowedPairs : cm_corr[xy].coef < below_threshold}}

\* C11, as stated: for every choice of the two thresholds the result holds no
\* pair (x, x), no pair is in both the high and the inverse set, and every
\* finite off-diagonal pair of allowed museums is in at most one of them.
C11_DisjointForEveryThreshold ==
    cm_pc = "returned" =>
        /\ NoDiagonalPair
        /\ PairsOf(cm_result.high_corr) \cap PairsOf(cm_result.inverse_corr) = {}
        /\ \A pq \in AllowedPairs : Memberships(pq) <= 1

\* C11, amended: the result holds no pair (x, x); high is the set of finite
\* off-diagonal pairs of allowed museums with a coefficient above
\* above_threshold and inverse the set of those below below_threshold; when
\* below_threshold <= above_threshold no pair is in both, so that each such
\* pair is in exactly one of high, inverse or neither.
C11_DisjointWhenThresholdsOrdered ==
    cm_pc = "returned" =>
        /\ NoDiagonalPair
        /\ HighAndInverseByThreshold
        /\ below_threshold <= above_threshold =>
              /\ PairsOf(cm_result.high_corr) \cap PairsOf(cm_result.inverse_corr) = {}
              /\ \A pq \in AllowedPairs : Memberships(pq) <= 1

\* a call with ordered thresholds that returns a pair in high, a pair in
\* inverse and leaves an allowed pair in neither
C11_Witness ==
    /\ cm_pc = "returned"
    /\ below_threshold <= above_threshold
    /\ cm_result.high_corr # {}
    /\ cm_result.inverse_corr # {}
    /\ \E pq \in AllowedPairs : Memberships(pq) = 0

----------------------------------------------------------------------------
(* Properties of the indicator columns of extract_features *)

\* C12: the frame has exactly one indicator column is_in_museum_n for each n
\* in 1..(number of distinct museum ids of the joined frame - 1); the rows are
\* those of the joined frame; in every row is_in_museum_n is 1 if and only if
\* the row's museum_id is n, so at most one indicator of a row is 1 and a row
\* whose museum_id is outside that range has all indicators 0.
C12_OneIndicatorPerMuseumButLast ==
    ind_pc = "done" =>
        LET distinct == Cardinality({r.museum_id : r \in ind_df})
        IN  /\ {[visit |-> r.visit, museum_id |-> r.museum_id] : r \in ind_out} = ind_df
            /\ Cardinality(ind_out) = Cardinality(ind_df)
            /\ \A r \in ind_out :
                  /\ DOMAIN r.is_in_museum = 1..(distinct - 1)
                  /\ \A n \in DOMAIN r.is_in_museum :
                        r.is_in_museum[n] \in {0, 1}
                        /\ (r.is_in_museum[n] = 1 <=> r.museum_id = n)
                  /\ Cardinality({n \in DOMAIN r.is_in_museum : r.is_in_museum[n] = 1}) <= 1
                  /\ r.museum_id \notin DOMAIN r.is_in_museum =>
                        \A n \in DOMAIN r.is_in_museum : r.is_in_museum[n] = 0

\* a frame with two indicator columns where one row has exactly one indicator
\* at 1 and the row of the highest-numbered museum has none
C12_Witness ==
    /\ ind_pc = "done"
    /\ \E r \in ind_out :
          /\ DOMAIN r.is_in_museum = {1, 2}
          /\ r.is_in_museum[r.museum_id] = 1
          /\ \E q \in ind_out :
                /\ q.museum_id = 3
                /\ \A n \in DOMAIN q.is_in_museum : q.is_in_museum[n] = 0

====
